---- MODULE Spec2Model ----
(***************************************************************************)
(* A model of run.py of AdsDataSqlSync: the command dispatch of main(),    *)
(* load_column_files, the four "to master pipeline" forwarders, the two    *)
(* diagnose functions, and Metrics.row_view_to_metrics (adsdata/metrics.py *)
(* is exercised by tests/tests/metrics_unittests.py).                      *)
(*                                                                         *)
(* Spec        one invocation of the program: either main() with parsed    *)
(*             arguments, or a direct call of one forwarder function.      *)
(* SpecMetrics one call of row_view_to_metrics on a bounded RowViewRecord. *)
(* SpecDelta   delta detection between a baseline and a current snapshot,  *)
(*             then the changed-only metrics update.                       *)
(***************************************************************************)
EXTENDS Integers, Sequences, FiniteSets, TLC

\* ------------------------------------------------------------- bounds
MaxRows == 4          \* rows in the scanned metrics table
MaxBatchSize == 3     \* largest --batchSize tried
MaxCiters == 3        \* bibcodes that can cite the record under computation
MaxAuthors == 2       \* authors of the record under computation
MaxBibcodes == 2      \* bibcodes of the two snapshots delta detection compares

VARIABLES
    entry,                      \* "main", or the forwarder function called directly
    command,                    \* args.command
    diagnose,                   \* args.diagnose
    rowViewSchemaName,          \* args.rowViewSchemaName ("" when given empty)
    metricsSchemaName,          \* args.metricsSchemaName
    rowViewBaselineSchemaName,  \* args.rowViewBaselineSchemaName
    batchSize,                  \* int(args.batchSize) / batch_size
    storeUp,                    \* whether the postgres server accepts connections
    metricsTable,               \* the rows of the metrics table, in storage order
    delta_table,                \* the entries of the row view schema's delta table
    pc,                         \* position in the program
    ret,                        \* where load_column_files returns to
    opened,                     \* connections opened so far
    closed,                     \* connections closed so far
    storeOps,                   \* operations executed against the store, in order
    committed,                  \* column tables whose copy was committed
    typeIdx,                    \* load_column_files: index into all_types
    results,                    \* the forwarder's cursor: rows not yet fetched
    tmp,                        \* the forwarder's pending buffer
    queue,                      \* messages handed to the queue (.delay), in order
    printed,                    \* what was printed to the operator
    record,                     \* row_view_to_metrics: the RowViewRecord passed
    snapshot,                   \* row_view_to_metrics: the row view rows a lookup can find
    db_conn,                    \* row_view_to_metrics: lookup connection or "None"
    year,                       \* datetime.today().year
    lookups,                    \* citer bibcodes looked up, in order
    metrics_dict,               \* result of row_view_to_metrics (state "none" before)
    current,                    \* the rows of the current row view snapshot
    baseline,                   \* the rows of the baseline row view snapshot
    metricsStore                \* the stored MetricsRecords

inputVars == <<entry, command, diagnose, rowViewSchemaName, metricsSchemaName,
               rowViewBaselineSchemaName, batchSize, storeUp, metricsTable,
               delta_table>>
mainVars == <<inputVars, pc, ret, opened, closed, storeOps, committed, typeIdx,
              results, tmp, queue, printed>>
deltaVars == <<current, baseline, metricsStore>>
metricsVars == <<record, snapshot, db_conn, year, lookups, metrics_dict, deltaVars>>
vars == <<mainVars, metricsVars>>

\* ------------------------------------------------------------- inputs
Commands ==
    {"help", "ingest", "verify", "createIngestTables", "dropIngestTables",
     "renameSchema", "createJoinedRows", "createMetricsTable", "dropMetricsTable",
     "populateMetricsTable", "createDeltaRows", "populateMetricsTableDelta",
     "runRowViewPipeline", "runMetricsPipeline", "createNewBibcodes",
     "logDeltaReasons", "runRowViewPipelineDelta", "runMetricsPipelineDelta",
     "runPipelines", "runPipelinesDelta", "nonbibToMasterPipeline",
     "nonbibDeltaToMasterPipeline", "metricsToMasterPipeline",
     "metricsDeltaToMasterPipeline"}

Forwarders ==
    {"nonbib_to_master_pipeline", "nonbib_delta_to_master_pipeline",
     "metrics_to_master_pipeline", "metrics_delta_to_master_pipeline"}

\* --batchSize values tried, the non-positive ones included
BatchSizes == (0 - 1)..MaxBatchSize

\* a bibcode is modelled as <<publication year, serial>>: the code reads only
\* its first four characters (the year) and otherwise treats it as opaque
StoredMetricsRow(i) ==
    [id |-> 100 + i, bibcode |-> <<1990 + i, i>>, refereed |-> (i % 2 = 0),
     citation_num |-> i % 3, author_num |-> 1 + (i % 2)]

MetricsTables == {[i \in 1..n |-> StoredMetricsRow(i)] : n \in 0..MaxRows}

\* nonbib.NonBib.all_types: one type for each reader kind load_column_files tells apart
all_types == <<"canonical", "refereed", "author", "citation">>

NoRecord == [bibcode |-> <<0, 0>>]

\* the delta tables tried with a metrics table: the bibcodes of its first k rows
DeltaTables(table) ==
    {{[bibcode |-> table[i].bibcode] : i \in 1..k} : k \in 0..Len(table)}

DeltaIdle ==
    /\ current = {}
    /\ baseline = {}
    /\ metricsStore = {}

MetricsIdle ==
    /\ record = NoRecord
    /\ snapshot = {}
    /\ db_conn = "None"
    /\ year = 0
    /\ lookups = <<>>
    /\ metrics_dict = [state |-> "none"]

MainStart ==
    /\ ret = "none"
    /\ opened = {}
    /\ closed = {}
    /\ storeOps = <<>>
    /\ committed = {}
    /\ typeIdx = 0
    /\ results = <<>>
    /\ tmp = <<>>
    /\ queue = <<>>
    /\ printed = <<>>

Init ==
    /\ entry \in {"main"} \cup Forwarders
    /\ IF entry = "main"
       THEN /\ command \in Commands
            /\ diagnose \in BOOLEAN
            /\ rowViewSchemaName \in {"", "nonbib"}
            /\ metricsSchemaName \in {"", "metrics"}
            /\ rowViewBaselineSchemaName \in {"", "nonbibstaging"}
            /\ pc = "main"
       ELSE /\ command = "none"
            /\ diagnose = FALSE
            /\ rowViewSchemaName = "nonbib"
            /\ metricsSchemaName = "metrics"
            /\ rowViewBaselineSchemaName = "nonbibstaging"
            /\ pc = entry
    /\ batchSize \in BatchSizes
    /\ storeUp \in BOOLEAN
    /\ metricsTable \in MetricsTables
    /\ delta_table \in DeltaTables(metricsTable)
    /\ MainStart
    /\ MetricsIdle
    /\ DeltaIdle

\* ------------------------------------------------------------- main()
\* truthiness of a string argument
Given(s) == s /= ""

\* lines 236-251: parse arguments, then connect to both stores, whatever the command
MainConnect ==
    /\ pc = "main"
    /\ IF storeUp
       THEN /\ opened' = opened \cup {"nonbib_db_conn", "metrics_db_conn"}
            /\ pc' = "dispatch"
       ELSE /\ opened' = opened
            /\ pc' = "raised"
    /\ UNCHANGED <<inputVars, ret, closed, storeOps, committed, typeIdx, results, tmp,
                   queue, printed>>
    /\ UNCHANGED metricsVars

\* lines 253-373: the if/elif chain, in its order; the value is the branch's first line
Branch ==
    IF command = "help" /\ diagnose THEN "L254"
    ELSE IF command = "createIngestTables" THEN "L258"
    ELSE IF command = "dropIngestTables" THEN "L262"
    ELSE IF command = "createJoinedRows" THEN "L266"
    ELSE IF command = "createMetricsTable" /\ Given(metricsSchemaName) THEN "L270"
    ELSE IF command = "dropMetricsTable" /\ Given(metricsSchemaName) THEN "L274"
    ELSE IF command = "populateMetricsTable" /\ Given(rowViewSchemaName)
            /\ Given(metricsSchemaName) THEN "L278"
    ELSE IF command = "populateMetricsTableDelta" /\ Given(rowViewSchemaName)
            /\ Given(metricsSchemaName) THEN "L282"
    ELSE IF command = "renameSchema" /\ Given(rowViewSchemaName)
            /\ Given(rowViewBaselineSchemaName) THEN "L286"
    ELSE IF command = "createDeltaRows" /\ Given(rowViewSchemaName)
            /\ Given(rowViewBaselineSchemaName) THEN "L290"
    ELSE IF command = "createNewBibcodes" /\ Given(rowViewSchemaName)
            /\ Given(rowViewBaselineSchemaName) THEN "L294"
    ELSE IF command = "logDeltaReasons" /\ Given(rowViewSchemaName)
            /\ Given(rowViewBaselineSchemaName) THEN "L298"
    ELSE IF command = "runRowViewPipeline" /\ Given(rowViewSchemaName) THEN "L303"
    ELSE IF command = "runMetricsPipeline" /\ Given(rowViewSchemaName)
            /\ Given(metricsSchemaName) THEN "L309"
    ELSE IF command = "runRowViewPipelineDelta" /\ Given(rowViewSchemaName)
            /\ Given(rowViewBaselineSchemaName) THEN "L316"
    ELSE IF command = "runMetricsPipelineDelta" /\ Given(rowViewSchemaName)
            /\ Given(metricsSchemaName) THEN "L326"
    ELSE IF command = "runPipelines" /\ Given(rowViewSchemaName)
            /\ Given(metricsSchemaName) THEN "L331"
    ELSE IF command = "runPipelinesDelta" /\ Given(rowViewSchemaName)
            /\ Given(metricsSchemaName) /\ Given(rowViewBaselineSchemaName) THEN "L343"
    ELSE IF command = "nonbibToMasterPipeline" /\ diagnose THEN "L360"
    ELSE IF command = "nonbibToMasterPipeline" THEN "L362"
    ELSE IF command = "nonbibDeltaToMasterPipeline" THEN "L365"
    ELSE IF command = "metricsToMasterPipeline" /\ diagnose THEN "L367"
    ELSE IF command = "metricsToMasterPipeline" THEN "L369"
    ELSE IF command = "metricsDeltaToMasterPipeline" THEN "L371"
    ELSE "L374"

Dispatch ==
    /\ pc = "dispatch"
    /\ pc' = Branch
    /\ UNCHANGED <<inputVars, ret, opened, closed, storeOps, committed, typeIdx,
                   results, tmp, queue, printed>>
    /\ UNCHANGED metricsVars

\* a call of a store operation of the adsdata package at label `at`
Call(at, op, schema, arg, next) ==
    /\ pc = at
    /\ storeOps' = Append(storeOps, <<op, schema, arg>>)
    /\ pc' = next
    /\ UNCHANGED <<inputVars, ret, opened, closed, committed, typeIdx, results, tmp,
                   queue, printed>>
    /\ UNCHANGED metricsVars

\* an exception raised at label `at`: nothing catches it, the process ends
Raise(at) ==
    /\ pc = at
    /\ pc' = "raised"
    /\ UNCHANGED <<inputVars, ret, opened, closed, storeOps, committed, typeIdx,
                   results, tmp, queue, printed>>
    /\ UNCHANGED metricsVars

\* a call whose argument list differs from the one the other call sites of the
\* same method pass; the method is defined outside run.py, so the call either
\* is accepted (defaulted parameters) or raises TypeError
CallOddShape(at, op, schema, arg, next) ==
    \/ Call(at, op, schema, arg, next)
    \/ Raise(at)

\* lines 257-299: the commands that make one call
OneCallCommand ==
    \/ Call("L258", "create_column_tables", rowViewSchemaName, "", "close")
    \/ Call("L262", "drop_column_tables", rowViewSchemaName, "", "close")
    \/ Call("L266", "create_joined_rows", rowViewSchemaName, "", "close")
    \/ Call("L270", "create_metrics_table", metricsSchemaName, "", "close")
    \/ Call("L274", "drop_metrics_table", metricsSchemaName, "", "close")
    \/ Call("L278", "update_metrics_all", "", rowViewSchemaName, "close")
    \/ Call("L286", "rename_schema", rowViewSchemaName, rowViewBaselineSchemaName,
            "close")
    \/ Call("L290", "create_delta_rows", rowViewSchemaName, rowViewBaselineSchemaName,
            "close")
    \/ Call("L294", "build_new_bibcodes", rowViewSchemaName, rowViewBaselineSchemaName,
            "close")
    \/ Call("L298", "log_delta_reasons", rowViewSchemaName, rowViewBaselineSchemaName,
            "close")

\* lines 281-283: update_metrics_changed with the row view schema name only
PopulateMetricsTableDelta ==
    CallOddShape("L282", "update_metrics_changed", metricsSchemaName,
                 rowViewSchemaName, "close")

\* lines 325-327: update_metrics_changed with both connections and the schema name
RunMetricsPipelineDelta ==
    CallOddShape("L326", "update_metrics_changed", metricsSchemaName,
                 rowViewSchemaName, "close")

\* the call of load_column_files at label `at`, returning to `next`
CallLoad(at, next) ==
    /\ pc = at
    /\ pc' = "L26"
    /\ ret' = next
    /\ UNCHANGED <<inputVars, opened, closed, storeOps, committed, typeIdx, results,
                   tmp, queue, printed>>
    /\ UNCHANGED metricsVars

\* lines 301-306
RunRowViewPipeline ==
    \/ Call("L303", "drop_column_tables", rowViewSchemaName, "", "L305")
    \/ Call("L305", "create_column_tables", rowViewSchemaName, "", "L306")
    \/ CallLoad("L306", "close")

\* lines 308-312
RunMetricsPipeline ==
    \/ Call("L309", "drop_metrics_table", metricsSchemaName, "", "L311")
    \/ Call("L311", "create_metrics_table", metricsSchemaName, "", "L312")
    \/ Call("L312", "update_metrics_all", metricsSchemaName, rowViewSchemaName,
            "close")

\* lines 314-323
RunRowViewPipelineDelta ==
    \/ Call("L316", "drop_column_tables", rowViewSchemaName, "", "L318")
    \/ Call("L318", "create_column_tables", rowViewSchemaName, "", "L320")
    \/ CallLoad("L320", "L322")
    \/ Call("L322", "create_delta_rows", rowViewSchemaName, rowViewBaselineSchemaName,
            "L323")
    \/ Call("L323", "log_delta_reasons", rowViewSchemaName, rowViewBaselineSchemaName,
            "close")

\* lines 329-339: line 331 reads args.rowViewSchemaNameg, an attribute argparse
\* never set, so AttributeError is raised before the first step
RunPipelines == Raise("L331")

\* lines 341-358: line 352 calls load_column_files(config, sql_sync), two
\* arguments for the four the function requires, so TypeError is raised there
RunPipelinesDelta ==
    \/ CallOddShape("L343", "drop_column_tables", rowViewBaselineSchemaName, "", "L345")
    \/ CallOddShape("L345", "rename_schema", rowViewSchemaName,
                    rowViewBaselineSchemaName, "L349")
    \/ Call("L349", "create_column_tables", rowViewSchemaName, "", "L352")
    \/ Raise("L352")

\* ------------------------------------------------- load_column_files
ReaderFor(t) ==
    IF t = "canonical" THEN "BibcodeFileReader"
    ELSE IF t = "refereed" THEN "RefereedFileReader"
    ELSE "StandardFileReader"

\* lines 26-27
LoadBegin ==
    /\ pc = "L26"
    /\ opened' = opened \cup {"raw_conn"}
    /\ typeIdx' = 1
    /\ pc' = "L29"
    /\ UNCHANGED <<inputVars, ret, closed, storeOps, committed, results, tmp, queue,
                   printed>>
    /\ UNCHANGED metricsVars

\* lines 29-41: one iteration, the copy of one type's file and its commit
LoadType ==
    /\ pc = "L29"
    /\ typeIdx <= Len(all_types)
    /\ LET t == all_types[typeIdx]
           table_name == <<rowViewSchemaName, t>>
       IN  /\ storeOps' = storeOps \o <<<<"copy_from", table_name, ReaderFor(t)>>,
                                        <<"commit", table_name, "">>>>
           /\ committed' = committed \cup {t}
    /\ typeIdx' = typeIdx + 1
    /\ UNCHANGED <<inputVars, pc, ret, opened, closed, results, tmp, queue, printed>>
    /\ UNCHANGED metricsVars

\* lines 32-40: the reader cannot open the type's file, or copy_from fails (store
\* unreachable, malformed row): the exception leaves load_column_files and main;
\* the copies committed at line 41 for the earlier types stay committed
LoadFail ==
    /\ pc = "L29"
    /\ typeIdx <= Len(all_types)
    /\ pc' = "raised"
    /\ UNCHANGED <<inputVars, ret, opened, closed, storeOps, committed, typeIdx,
                   results, tmp, queue, printed>>
    /\ UNCHANGED metricsVars

\* lines 43-45
LoadEnd ==
    /\ pc = "L29"
    /\ typeIdx > Len(all_types)
    /\ closed' = closed \cup {"raw_conn"}
    /\ storeOps' = Append(storeOps, <<"create_joined_rows", rowViewSchemaName, "">>)
    /\ pc' = ret
    /\ ret' = "none"
    /\ UNCHANGED <<inputVars, opened, committed, typeIdx, results, tmp, queue, printed>>
    /\ UNCHANGED metricsVars

\* ------------------------------------------------------- forwarders
\* Pop with the removal forgotten: the mapping is passed on whole
PopKeepsKey(row, key) == row

\* dict.pop(key): the mapping without the key
Pop(row, key) == [f \in (DOMAIN row) \ {key} |-> row[f]]

\* MetricsRecord(**kwargs)._data: the message built from the keyword arguments
MetricsRecord(kwargs) == [msg |-> "MetricsRecord", data |-> kwargs]

\* NonBibRecord(**kwargs)._data
NonBibRecord(kwargs) == [msg |-> "NonBibRecord", data |-> kwargs]

\* task_output_metrics.delay(recs), recs a MetricsRecordList extended with `recs`
MetricsMessage(recs) ==
    [task |-> "task_output_metrics", list |-> "MetricsRecordList", records |-> recs]

\* task_output_results.delay(recs), recs a NonBibRecordList extended with `recs`
NonBibMessage(recs) ==
    [task |-> "task_output_results", list |-> "NonBibRecordList", records |-> recs]

\* BatchFull with = for >=: a buffer longer than batch_size is never published
BatchFullExact(buffer, batch_size) == Len(buffer) = batch_size

\* BatchFull with > for >=: a batch is published one record late
BatchFullOffByOne(buffer, batch_size) == Len(buffer) > batch_size

\* line 116: the buffer is published once it holds batch_size records
BatchFull(buffer, batch_size) == Len(buffer) >= batch_size

\* FinalFlushNeeded with 1 for 0: a single trailing record is dropped
FinalFlushSkipsOne(buffer) == Len(buffer) > 1

\* line 123: the buffer left at the end of the scan is published unless empty
FinalFlushNeeded(buffer) == Len(buffer) > 0

\* BufferAfterPublish with the reset forgotten: the published records stay buffered
BufferKeptAfterPublish(buffer) == buffer

\* line 121: tmp = [] once the buffer was published
BufferAfterPublish(buffer) == <<>>

\* the call of a forwarder from main() at label `at`
CallForwarder(at, function) ==
    /\ pc = at
    /\ pc' = function
    /\ UNCHANGED <<inputVars, ret, opened, closed, storeOps, committed, typeIdx,
                   results, tmp, queue, printed>>
    /\ UNCHANGED metricsVars

\* lines 361-371: line 371 calls nonbib_delta_to_master_pipeline with three
\* arguments, one more than it takes, so TypeError is raised there
MainToMasterPipeline ==
    \/ CallForwarder("L362", "nonbib_to_master_pipeline")
    \/ CallForwarder("L365", "nonbib_delta_to_master_pipeline")
    \/ CallForwarder("L369", "metrics_to_master_pipeline")
    \/ Raise("L371")

\* line 50: `nonbib = nonbib.NonBib(schema)` makes nonbib a local of the function,
\* read before it is bound: UnboundLocalError, before any row is scanned
NonbibToMasterPipeline == Raise("nonbib_to_master_pipeline")

\* line 79: the same assignment, the same UnboundLocalError
NonbibDeltaToMasterPipeline == Raise("nonbib_delta_to_master_pipeline")

\* lines 136-137: the same assignment, the same UnboundLocalError
MetricsDeltaToMasterPipeline == Raise("metrics_delta_to_master_pipeline")

\* lines 105-109: connect, select the whole metrics table, start with an empty buffer
MetricsToMasterBegin ==
    /\ pc = "metrics_to_master_pipeline"
    /\ IF storeUp
       THEN /\ opened' = opened \cup {"m.engine"}
            /\ storeOps' = Append(storeOps, <<"select", metricsSchemaName, "">>)
            /\ results' = metricsTable
            /\ tmp' = <<>>
            /\ pc' = "L110"
       ELSE /\ pc' = "raised"
            /\ UNCHANGED <<opened, storeOps, results, tmp>>
    /\ UNCHANGED <<inputVars, ret, closed, committed, typeIdx, queue, printed>>
    /\ UNCHANGED metricsVars

\* lines 110-121: one iteration of the scan
MetricsToMasterRow ==
    /\ pc = "L110"
    /\ results /= <<>>
    /\ LET current_row == Pop(Head(results), "id")
           rec == MetricsRecord(current_row)
           buffer == Append(tmp, rec)
       IN  IF BatchFull(buffer, batchSize)
           THEN /\ queue' = Append(queue, MetricsMessage(buffer))
                /\ tmp' = BufferAfterPublish(buffer)
           ELSE /\ queue' = queue
                /\ tmp' = buffer
    /\ results' = Tail(results)
    /\ UNCHANGED <<inputVars, pc, ret, opened, closed, storeOps, committed, typeIdx,
                   printed>>
    /\ UNCHANGED metricsVars

\* lines 123-127: the scan is exhausted; publish what is left and return
MetricsToMasterFinal ==
    /\ pc = "L110"
    /\ results = <<>>
    /\ queue' = IF FinalFlushNeeded(tmp) THEN Append(queue, MetricsMessage(tmp))
                ELSE queue
    /\ pc' = IF entry = "main" THEN "close" ELSE "done"
    /\ UNCHANGED <<inputVars, ret, opened, closed, storeOps, committed, typeIdx,
                   results, tmp, printed>>
    /\ UNCHANGED metricsVars

\* --------------------------------------------------------- diagnose
\* lines 168-173 (the list values are kept by their lengths)
nonbib_test_data ==
    [bibcode |-> <<2003, 0>>, id |-> 6473150, authors |-> 2, refereed |-> FALSE,
     simbad_objects |-> 0, grants |-> 1, citations |-> 0, citation_count |-> 0,
     read_count |-> 2, readers |-> 2, downloads |-> 22, reference |-> 2, reads |-> 22]

\* lines 193-200
metrics_test_data ==
    [bibcode |-> <<2003, 0>>, refereed |-> FALSE, rn_citations |-> 0,
     rn_citation_data |-> 0, downloads |-> 22, reads |-> 22, an_citations |-> 0,
     refereed_citation_num |-> 0, citation_num |-> 0, reference_num |-> 0,
     citations |-> 0, refereed_citations |-> 0, author_num |-> 2,
     an_refereed_citations |-> 0]

\* lines 163-185, called at line 254 or 360
DiagnoseNonbib ==
    /\ pc \in {"L254", "L360"}
    /\ queue' = Append(queue, NonBibMessage(<<NonBibRecord(nonbib_test_data)>>))
    /\ printed' = printed \o
          <<[text |-> "sending nonbib data for bibocde", values |-> <<<<2003, 0>>>>],
            [text |-> "this action did not use ingest database or the metrics database",
             values |-> <<>>]>>
    /\ pc' = IF pc = "L254" THEN "L255" ELSE "close"
    /\ UNCHANGED <<inputVars, ret, opened, closed, storeOps, committed, typeIdx,
                   results, tmp>>
    /\ UNCHANGED metricsVars

\* lines 188-212, called at line 255 or 367
DiagnoseMetrics ==
    /\ pc \in {"L255", "L367"}
    /\ queue' = Append(queue, MetricsMessage(<<MetricsRecord(metrics_test_data)>>))
    /\ printed' = printed \o
          <<[text |-> "sending metrics data for bibocde", values |-> <<<<2003, 0>>>>],
            [text |-> "this action did not use ingest database or the metrics database",
             values |-> <<>>]>>
    /\ pc' = "close"
    /\ UNCHANGED <<inputVars, ret, opened, closed, storeOps, committed, typeIdx,
                   results, tmp>>
    /\ UNCHANGED metricsVars

\* lines 373-377: the else branch reports the command and the three schema names
IllegalCommand ==
    /\ pc = "L374"
    /\ printed' = Append(printed,
          [text |-> "illegal command or missing argument",
           values |-> <<command, rowViewSchemaName, rowViewBaselineSchemaName,
                        metricsSchemaName>>])
    /\ pc' = "close"
    /\ UNCHANGED <<inputVars, ret, opened, closed, storeOps, committed, typeIdx,
                   results, tmp, queue>>
    /\ UNCHANGED metricsVars

\* lines 379-382: the ingest connection is closed, the metrics connection is not
MainClose ==
    /\ pc = "close"
    /\ closed' = closed \cup {"nonbib_db_conn"}
    /\ pc' = "done"
    /\ UNCHANGED <<inputVars, ret, opened, storeOps, committed, typeIdx, results, tmp,
                   queue, printed>>
    /\ UNCHANGED metricsVars

Next ==
    \/ MainConnect
    \/ Dispatch
    \/ OneCallCommand
    \/ PopulateMetricsTableDelta
    \/ RunMetricsPipelineDelta
    \/ RunRowViewPipeline
    \/ RunMetricsPipeline
    \/ RunRowViewPipelineDelta
    \/ RunPipelines
    \/ RunPipelinesDelta
    \/ LoadBegin
    \/ LoadType
    \/ LoadFail
    \/ LoadEnd
    \/ MainToMasterPipeline
    \/ NonbibToMasterPipeline
    \/ NonbibDeltaToMasterPipeline
    \/ MetricsDeltaToMasterPipeline
    \/ MetricsToMasterBegin
    \/ MetricsToMasterRow
    \/ MetricsToMasterFinal
    \/ DiagnoseNonbib
    \/ DiagnoseMetrics
    \/ IllegalCommand
    \/ MainClose

Spec == Init /\ [][Next]_vars

\* ---------------------------------- Metrics.row_view_to_metrics
\* a rational number as <<numerator, denominator>> in lowest terms
RECURSIVE GCD(_, _)
GCD(a, b) == IF b = 0 THEN a ELSE GCD(b, a % b)

Frac(n, d) == LET g == GCD(n, d) IN <<n \div g, d \div g>>

AddFrac(x, y) == Frac(x[1] * y[2] + y[1] * x[2], x[2] * y[2])

\* the publication year: the first four characters of the bibcode
PubYear(bibcode) == bibcode[1]

\* age = max(1, current year - publication year + 1)
Age(bibcode, today_year) ==
    LET a == today_year - PubYear(bibcode) + 1 IN IF a > 1 THEN a ELSE 1

\* the bibcodes that may cite the record, each with its own publication year
CiterBibcode(i) == <<1993 + i, i>>

\* the row view row of citer i as the lookup returns it
CiterRow(i, refereed) ==
    [bibcode |-> CiterBibcode(i), refereed |-> refereed, reference_num |-> 1 + (i % 2)]

\* the lookup snapshots: each citer is absent, or present refereed or not
Snapshots ==
    {{CiterRow(i, f[i] = "refereed") : i \in {j \in 1..MaxCiters : f[j] /= "absent"}} :
        f \in [1..MaxCiters -> {"absent", "refereed", "unrefereed"}]}

\* the citations lists: the sequences without repetition over the citer bibcodes
CitationLists ==
    {<<>>} \cup
    UNION {{[k \in 1..n |-> CiterBibcode(p[k])] :
               p \in {q \in [1..n -> 1..MaxCiters] :
                         \A a, b \in 1..n : a /= b => q[a] /= q[b]}} :
           n \in 1..MaxCiters}

\* RowViewRecords after the two fixtures of metrics_unittests.py (t1, t2) and a
\* third with no reference, each with every authors list and citations list
RowViewRecords ==
    {[bibcode |-> b.bibcode, id |-> b.id, refereed |-> b.refereed, reads |-> b.reads,
      downloads |-> b.downloads, reference |-> b.reference,
      authors |-> [k \in 1..n |-> k], citations |-> c] :
        b \in {[bibcode |-> <<1998, 11>>, id |-> 11, refereed |-> FALSE,
                reads |-> <<1, 2, 3, 4>>, downloads |-> <<0, 1, 2, 3>>,
                reference |-> <<<<1997, 3>>>>],
               [bibcode |-> <<1997, 3>>, id |-> 3, refereed |-> TRUE,
                reads |-> <<>>, downloads |-> <<>>,
                reference |-> <<<<1994, 21>>, <<1994, 22>>, <<1997, 23>>>>],
               [bibcode |-> <<2030, 7>>, id |-> 7, refereed |-> TRUE,
                reads |-> <<0, 0>>, downloads |-> <<5>>, reference |-> <<>>]},
        n \in 1..MaxAuthors, c \in CitationLists}

\* the point lookup of one bibcode: its row, or nothing
Lookup(snap, bibcode) == {r \in snap : r.bibcode = bibcode}

\* ReferenceNum reading the wrong list
ReferenceNumOfCitations(row) == Len(row.citations)

\* reference_num = |reference|
ReferenceNum(row) == Len(row.reference)

\* HasCitations always true: the lookup is run for every record
HasCitationsAlways(row) == TRUE

\* whether the record has citations: only then is the lookup used
HasCitations(row) == Len(row.citations) > 0

\* CountsAsRefereed ignoring the flag: every found citer is listed
CountsAsRefereedAny(citer) == TRUE

\* whether a found citer goes into refereed_citations
CountsAsRefereed(citer) == citer.refereed

\* the weight entry of one found citer
CitationData(row, citer) ==
    [bibcode |-> citer.bibcode, pubyear |-> PubYear(row.bibcode),
     cityear |-> PubYear(citer.bibcode), auth_norm |-> Frac(1, Len(row.authors)),
     ref_norm |-> Frac(1, Len(row.authors) * citer.reference_num)]

\* the citers of `cites` found in the snapshot, in list order
RECURSIVE FoundCiters(_, _)
FoundCiters(snap, cites) ==
    IF cites = <<>> THEN <<>>
    ELSE LET found == Lookup(snap, Head(cites))
         IN  (IF found = {} THEN <<>> ELSE <<CHOOSE r \in found : TRUE>>)
             \o FoundCiters(snap, Tail(cites))

RECURSIVE SumRefNorm(_)
SumRefNorm(data) ==
    IF data = <<>> THEN <<0, 1>>
    ELSE AddFrac(Head(data).ref_norm, SumRefNorm(Tail(data)))

\* row_view_to_metrics(passed_row_view, db_conn): the MetricsRecord of one record
RowViewToMetricsResult(row, conn, snap, today_year) ==
    LET age == Age(row.bibcode, today_year)
        citers == IF HasCitations(row) THEN FoundCiters(snap, row.citations) ELSE <<>>
        refereed_citations ==
            [k \in 1..Len(SelectSeq(citers, CountsAsRefereed)) |->
                SelectSeq(citers, CountsAsRefereed)[k].bibcode]
        rn_citation_data == [k \in 1..Len(citers) |-> CitationData(row, citers[k])]
    IN  IF HasCitations(row) /\ conn = "None"
        THEN [state |-> "raised"]
        ELSE [state |-> "computed",
              bibcode |-> row.bibcode,
              id |-> row.id,
              refereed |-> row.refereed,
              citations |-> row.citations,
              reads |-> row.reads,
              downloads |-> row.downloads,
              citation_num |-> Len(row.citations),
              reference_num |-> ReferenceNum(row),
              author_num |-> Len(row.authors),
              refereed_citations |-> refereed_citations,
              refereed_citation_num |-> Len(refereed_citations),
              rn_citation_data |-> rn_citation_data,
              rn_citations |-> SumRefNorm(rn_citation_data),
              an_citations |-> Frac(Len(row.citations), age),
              an_refereed_citations |-> Frac(Len(refereed_citations), age)]

\* the bibcodes the call looks up, in order
RowViewToMetricsLookups(row, conn) ==
    IF HasCitations(row) /\ conn /= "None" THEN row.citations ELSE <<>>

MainIdle ==
    /\ entry = "none"
    /\ command = "none"
    /\ diagnose = FALSE
    /\ rowViewSchemaName = "nonbib"
    /\ metricsSchemaName = "metrics"
    /\ rowViewBaselineSchemaName = "nonbibstaging"
    /\ batchSize = 1
    /\ storeUp = TRUE
    /\ metricsTable = <<>>
    /\ delta_table = {}
    /\ pc = "idle"
    /\ MainStart

InitMetrics ==
    /\ MainIdle
    /\ record \in RowViewRecords
    /\ snapshot \in Snapshots
    /\ db_conn \in {"None", "conn"}
    /\ year \in {1997, 2026}
    /\ lookups = <<>>
    /\ metrics_dict = [state |-> "none"]
    /\ DeltaIdle

\* one call of row_view_to_metrics(record, db_conn)
RowViewToMetrics ==
    /\ metrics_dict.state = "none"
    /\ record /= NoRecord
    /\ metrics_dict' = RowViewToMetricsResult(record, db_conn, snapshot, year)
    /\ lookups' = RowViewToMetricsLookups(record, db_conn)
    /\ UNCHANGED <<record, snapshot, db_conn, year, deltaVars>>
    /\ UNCHANGED mainVars

NextMetrics == RowViewToMetrics

SpecMetrics == InitMetrics /\ [][NextMetrics]_vars

\* ------------------------ NonBib.create_delta_rows, Metrics.update_metrics_changed
\* the bibcode of serial i
SnapshotBibcode(i) == <<1990 + i, i>>

\* the one bibcode that may cite bibcode i: the next one, cyclically
CiterOf(i) == (i % MaxBibcodes) + 1

\* the row view row of bibcode i
SnapshotRow(i, refereed, two_refs, cited) ==
    [bibcode |-> SnapshotBibcode(i), id |-> i, authors |-> <<1>>,
     refereed |-> refereed,
     citations |-> IF cited THEN <<SnapshotBibcode(CiterOf(i))>> ELSE <<>>,
     reference |-> IF two_refs THEN <<<<1980, 91>>, <<1981, 92>>>> ELSE <<<<1980, 91>>>>,
     reads |-> <<>>, downloads |-> <<>>, boost |-> 0, simbad_objects |-> <<>>,
     grants |-> <<>>]

\* what a snapshot may hold of one bibcode: nothing, or a row that is cited or
\* not and is plain, refereed, or has a second reference
RowChoices ==
    {c \in [present : BOOLEAN, refereed : BOOLEAN, two_refs : BOOLEAN,
            cited : BOOLEAN] :
        /\ c.present \/ (~c.refereed /\ ~c.two_refs /\ ~c.cited)
        /\ ~(c.refereed /\ c.two_refs)}

\* the snapshots: at most one row for each bibcode
RowViewSnapshots ==
    {{SnapshotRow(i, f[i].refereed, f[i].two_refs, f[i].cited) :
         i \in {j \in 1..MaxBibcodes : f[j].present}} :
       f \in [1..MaxBibcodes -> RowChoices]}

BibcodesOf(snap) == {r.bibcode : r \in snap}

RowOf(snap, bibcode) == CHOOSE r \in snap : r.bibcode = bibcode

\* the attributes delta detection compares
TrackedAttributes ==
    {"authors", "refereed", "citations", "reference", "reads", "downloads", "boost",
     "simbad_objects", "grants"}

\* Reasons comparing only the row's own lists, not its refereed flag
ReasonsWithoutRefereed(bibcode, S, B) ==
    {a \in TrackedAttributes \ {"refereed"} :
        RowOf(S, bibcode)[a] /= RowOf(B, bibcode)[a]}

\* the names of the tracked attributes that differ, for a bibcode of both snapshots
Reasons(bibcode, S, B) ==
    {a \in TrackedAttributes : RowOf(S, bibcode)[a] /= RowOf(B, bibcode)[a]}

\* the classification of a bibcode of S or B
Classification(bibcode, S, B) ==
    IF bibcode \notin BibcodesOf(B) THEN "New"
    ELSE IF bibcode \notin BibcodesOf(S) THEN "Removed"
    ELSE IF Reasons(bibcode, S, B) /= {} THEN "Changed"
    ELSE "Unchanged"

\* the DeltaEntry of every bibcode of S or B that is not Unchanged
DeltaEntries(S, B) ==
    {[bibcode |-> b,
      classification |-> Classification(b, S, B),
      reasons |-> IF Classification(b, S, B) = "Changed" THEN Reasons(b, S, B) ELSE {}] :
        b \in {x \in BibcodesOf(S) \cup BibcodesOf(B) :
                  Classification(x, S, B) /= "Unchanged"}}

\* what the per-citation lookup reads of a snapshot: refereed, len(reference), bibcode
LookupView(snap) ==
    {[bibcode |-> r.bibcode, refereed |-> r.refereed,
      reference_num |-> Len(r.reference)] : r \in snap}

\* the MetricsRecord of one bibcode of a snapshot
MetricsOf(bibcode, snap, today_year) ==
    RowViewToMetricsResult(RowOf(snap, bibcode), "conn", LookupView(snap), today_year)

\* update_metrics_all: the MetricsRecord of every row of the snapshot
FullMetrics(snap, today_year) ==
    {MetricsOf(b, snap, today_year) : b \in BibcodesOf(snap)}

\* the bibcodes the changed-only mode iterates: the New and Changed entries
ChangedBibcodes(delta) ==
    {e.bibcode : e \in {x \in delta : x.classification \in {"New", "Changed"}}}

\* update_metrics_changed: the records of the changed bibcodes are overwritten,
\* every other stored record is left as it is
ChangedMetrics(store, delta, snap, today_year) ==
    {m \in store : m.bibcode \notin ChangedBibcodes(delta)}
    \cup {MetricsOf(b, snap, today_year) : b \in ChangedBibcodes(delta)}

\* the state before a delta run: the metrics store holds the full compute of
\* the previous run's snapshot, which is now the baseline
InitDelta ==
    /\ MainIdle
    /\ record = NoRecord
    /\ snapshot = {}
    /\ db_conn = "None"
    /\ year = 2026
    /\ lookups = <<>>
    /\ metrics_dict = [state |-> "none"]
    /\ current \in RowViewSnapshots
    /\ baseline \in RowViewSnapshots
    /\ metricsStore = FullMetrics(baseline, 2026)

\* create_delta_rows(baseline schema) on the current schema
CreateDeltaRows ==
    /\ pc = "idle"
    /\ delta_table' = DeltaEntries(current, baseline)
    /\ pc' = "delta"
    /\ UNCHANGED <<entry, command, diagnose, rowViewSchemaName, metricsSchemaName,
                   rowViewBaselineSchemaName, batchSize, storeUp, metricsTable>>
    /\ UNCHANGED <<ret, opened, closed, storeOps, committed, typeIdx, results, tmp,
                   queue, printed>>
    /\ UNCHANGED metricsVars

\* update_metrics_changed(row view schema) after the delta rows were created
UpdateMetricsChanged ==
    /\ pc = "delta"
    /\ metricsStore' = ChangedMetrics(metricsStore, delta_table, current, year)
    /\ pc' = "updated"
    /\ UNCHANGED <<inputVars, ret, opened, closed, storeOps, committed, typeIdx,
                   results, tmp, queue, printed>>
    /\ UNCHANGED <<record, snapshot, db_conn, year, lookups, metrics_dict, current,
                   baseline>>

NextDelta ==
    \/ CreateDeltaRows
    \/ UpdateMetricsChanged

SpecDelta == InitDelta /\ [][NextDelta]_vars

\* ------------------------------------------------------- properties
Terminated == pc \in {"done", "raised"}

\* the records of a sequence of messages, in publish order
RECURSIVE Flatten(_)
Flatten(msgs) ==
    IF msgs = <<>> THEN <<>> ELSE Head(msgs).records \o Flatten(Tail(msgs))

\* a run of nonbib_to_master_pipeline or metrics_to_master_pipeline
FullForwarderRun ==
    \/ entry \in {"nonbib_to_master_pipeline", "metrics_to_master_pipeline"}
    \/ /\ entry = "main"
       /\ ~diagnose
       /\ command \in {"nonbibToMasterPipeline", "metricsToMasterPipeline"}

\* a run of metrics_to_master_pipeline or metrics_delta_to_master_pipeline
MetricsForwarderRun ==
    \/ entry \in {"metrics_to_master_pipeline", "metrics_delta_to_master_pipeline"}
    \/ /\ entry = "main"
       /\ \/ command = "metricsToMasterPipeline" /\ ~diagnose
          \/ command = "metricsDeltaToMasterPipeline"

\* C1: with batch_size >= 1, every message handed to the queue by
\* nonbib_to_master_pipeline or metrics_to_master_pipeline holds between 1 and
\* batch_size records, and every message but the last holds exactly batch_size.
C1_BatchBounds ==
    (FullForwarderRun /\ batchSize >= 1) =>
        \A i \in 1..Len(queue) :
            LET n == Len(queue[i].records)
            IN  /\ n >= 1
                /\ n <= batchSize
                /\ (i < Len(queue) => n = batchSize)

\* a finished run that published a full batch and then a partial one
C1_Witness ==
    /\ FullForwarderRun
    /\ pc = "done"
    /\ batchSize = 2
    /\ Len(queue) = 2
    /\ Len(queue[1].records) = 2
    /\ Len(queue[2].records) = 1

\* C2: when nonbib_to_master_pipeline or metrics_to_master_pipeline returns after
\* the scan is exhausted, every scanned row is in some published batch, and the
\* buffer holds nothing that was not published (a trailing partial batch is flushed).
C2_AllDelivered ==
    (FullForwarderRun /\ pc \in {"close", "done"}) =>
        /\ results = <<>>
        /\ \A i \in 1..Len(metricsTable) :
              \E m \in 1..Len(queue) : \E k \in 1..Len(queue[m].records) :
                  queue[m].records[k].data.bibcode = metricsTable[i].bibcode
        /\ \A j \in 1..Len(tmp) :
              \E m \in 1..Len(queue) : \E k \in 1..Len(queue[m].records) :
                  queue[m].records[k] = tmp[j]

\* a returned run whose last row was flushed as a partial batch
C2_Witness ==
    /\ FullForwarderRun
    /\ pc \in {"close", "done"}
    /\ Len(metricsTable) = 3
    /\ batchSize = 2
    /\ Len(tmp) = 1
    /\ queue[Len(queue)].records = tmp

\* C3: every Metrics record forwarded by metrics_to_master_pipeline or
\* metrics_delta_to_master_pipeline lacks the id field and carries every other
\* field of the stored row unchanged.
C3_IdDropped ==
    MetricsForwarderRun =>
        LET sent == Flatten(queue)
        IN  /\ Len(sent) <= Len(metricsTable)
            /\ \A k \in 1..Len(sent) :
                  /\ sent[k].msg = "MetricsRecord"
                  /\ "id" \notin DOMAIN sent[k].data
                  /\ DOMAIN sent[k].data = (DOMAIN metricsTable[k]) \ {"id"}
                  /\ \A f \in DOMAIN sent[k].data :
                        sent[k].data[f] = metricsTable[k][f]

\* two stored rows, each with an id, were forwarded
C3_Witness ==
    /\ MetricsForwarderRun
    /\ Len(Flatten(queue)) >= 2
    /\ "id" \in DOMAIN metricsTable[1]
    /\ "id" \in DOMAIN metricsTable[2]

\* the store calls of one complete load_column_files: a copy and a commit for
\* each type, then the join
LoadOps ==
    [i \in 1..(2 * Len(all_types)) |-> IF i % 2 = 1 THEN "copy_from" ELSE "commit"]
    \o <<"create_joined_rows">>

\* the names of the store operations executed so far, in order
OpNames == [i \in 1..Len(storeOps) |-> storeOps[i][1]]

\* C4: runPipelines with both schema names given runs drop column tables, create
\* column tables, the load of every type, create joined rows, drop metrics table,
\* create metrics table and the full metrics compute, in this order, to the end.
C4_RunPipelinesOrder ==
    (/\ entry = "main"
     /\ command = "runPipelines"
     /\ Given(rowViewSchemaName)
     /\ Given(metricsSchemaName)
     /\ storeUp
     /\ Terminated) =>
        OpNames = <<"drop_column_tables", "create_column_tables">> \o LoadOps
                  \o <<"drop_metrics_table", "create_metrics_table",
                       "update_metrics_all">>

\* C5: runPipelinesDelta drops the baseline schema, renames current to baseline,
\* creates, loads and joins a new current, runs delta detection against the
\* baseline, then computes the changed-only metrics, in this order.
C5_DeltaPromotionOrder ==
    (/\ entry = "main"
     /\ command = "runPipelinesDelta"
     /\ Given(rowViewSchemaName)
     /\ Given(metricsSchemaName)
     /\ Given(rowViewBaselineSchemaName)
     /\ storeUp
     /\ Terminated) =>
        SelectSeq(OpNames, LAMBDA o : o /= "log_delta_reasons")
          = <<"drop_column_tables", "rename_schema", "create_column_tables">>
            \o LoadOps \o <<"create_delta_rows", "update_metrics_changed">>

\* C6: an invocation with an unrecognized command or a missing schema name
\* reports the command and the three schema names, opens no store connection,
\* runs no store operation and publishes nothing.
C6_IllegalTouchesNothing ==
    (entry = "main" /\ Branch = "L374" /\ storeUp /\ Terminated) =>
        /\ printed = <<[text |-> "illegal command or missing argument",
                        values |-> <<command, rowViewSchemaName,
                                     rowViewBaselineSchemaName, metricsSchemaName>>]>>
        /\ opened = {}
        /\ storeOps = <<>>
        /\ queue = <<>>

\* what a diagnostic run publishes: the hand-written example(s), one per message
DiagnosticMessages ==
    IF command = "help"
    THEN <<NonBibMessage(<<NonBibRecord(nonbib_test_data)>>),
           MetricsMessage(<<MetricsRecord(metrics_test_data)>>)>>
    ELSE IF command = "nonbibToMasterPipeline"
    THEN <<NonBibMessage(<<NonBibRecord(nonbib_test_data)>>)>>
    ELSE <<MetricsMessage(<<MetricsRecord(metrics_test_data)>>)>>

\* C7: a --diagnose run of help, nonbibToMasterPipeline or metricsToMasterPipeline
\* publishes exactly the fixed example record(s), each as a one-record batch, and
\* does not touch the ingest store or the metrics store.
C7_DiagnoseTouchesNoStore ==
    (/\ entry = "main"
     /\ diagnose
     /\ command \in {"help", "nonbibToMasterPipeline", "metricsToMasterPipeline"}
     /\ storeUp
     /\ Terminated) =>
        /\ queue = DiagnosticMessages
        /\ opened = {}
        /\ storeOps = <<>>

\* C8: for any RowViewRecord, the MetricsRecord has citation_num = |citations|,
\* reference_num = |reference|, author_num = |authors|, and bibcode, id,
\* citations, reads and downloads copied unchanged.
C8_CountsAndCopies ==
    metrics_dict.state = "computed" =>
        /\ metrics_dict.citation_num = Len(record.citations)
        /\ metrics_dict.reference_num = Len(record.reference)
        /\ metrics_dict.author_num = Len(record.authors)
        /\ metrics_dict.bibcode = record.bibcode
        /\ metrics_dict.id = record.id
        /\ metrics_dict.citations = record.citations
        /\ metrics_dict.reads = record.reads
        /\ metrics_dict.downloads = record.downloads

\* a computed record whose three lists have three different lengths
C8_Witness ==
    /\ metrics_dict.state = "computed"
    /\ Len(record.citations) = 2
    /\ Len(record.reference) = 3
    /\ Len(record.authors) = 1

\* C9: for a RowViewRecord with no citations the MetricsRecord has
\* refereed_citation_num = 0, rn_citations = 0, rn_citation_data empty,
\* an_citations = 0 and an_refereed_citations = 0, and nothing is looked up:
\* the call succeeds with no lookup connection.
C9_NoCitations ==
    (metrics_dict.state /= "none" /\ Len(record.citations) = 0) =>
        /\ metrics_dict.state = "computed"
        /\ metrics_dict.refereed_citation_num = 0
        /\ metrics_dict.rn_citations = <<0, 1>>
        /\ metrics_dict.rn_citation_data = <<>>
        /\ metrics_dict.an_citations = <<0, 1>>
        /\ metrics_dict.an_refereed_citations = <<0, 1>>
        /\ lookups = <<>>

\* a record with no citations computed with no lookup connection
C9_Witness ==
    /\ metrics_dict.state = "computed"
    /\ Len(record.citations) = 0
    /\ db_conn = "None"
    /\ snapshot /= {}

\* whether the snapshot holds a row of the bibcode, and a refereed one
InSnapshot(bibcode) == \E r \in snapshot : r.bibcode = bibcode
RefereedInSnapshot(bibcode) == \E r \in snapshot : r.bibcode = bibcode /\ r.refereed

AllTypes == {all_types[i] : i \in 1..Len(all_types)}

\* C13: if a failure interrupts load_column_files, no partial load is committed:
\* either every type is loaded and the joined rows are created, or the store
\* holds no committed rows of this load.
C13_NoPartialLoad ==
    (typeIdx > 0 /\ Terminated) =>
        \/ committed = {}
        \/ committed = AllTypes /\ "create_joined_rows" \in {OpNames[i] : i \in 1..Len(OpNames)}

\* a run of metrics_delta_to_master_pipeline: called directly, or asked for by
\* the metricsDeltaToMasterPipeline command
MetricsDeltaRun ==
    \/ entry = "metrics_delta_to_master_pipeline"
    \/ entry = "main" /\ command = "metricsDeltaToMasterPipeline"

\* C14: metrics_delta_to_master_pipeline, for any delta table and batch_size >= 1,
\* forwards the stored Metrics record of every bibcode of the delta table in
\* batches of at most batch_size records, and the metricsDeltaToMasterPipeline
\* command invokes it.
C14_MetricsDeltaForwarded ==
    (MetricsDeltaRun /\ storeUp /\ batchSize >= 1 /\ Terminated) =>
        /\ pc = "done"
        /\ \A e \in delta_table :
              \E m \in 1..Len(queue) : \E k \in 1..Len(queue[m].records) :
                  queue[m].records[k].data.bibcode = e.bibcode
        /\ \A m \in 1..Len(queue) : Len(queue[m].records) <= batchSize

\* a run of nonbib_to_master_pipeline, nonbib_delta_to_master_pipeline or
\* metrics_to_master_pipeline
ScanForwarderRun ==
    \/ entry \in {"nonbib_to_master_pipeline", "nonbib_delta_to_master_pipeline",
                  "metrics_to_master_pipeline"}
    \/ /\ entry = "main"
       /\ \/ ~diagnose /\ command \in {"nonbibToMasterPipeline",
                                       "metricsToMasterPipeline"}
          \/ command = "nonbibDeltaToMasterPipeline"

\* the records of the rows fetched from the cursor so far, in scan order
Scanned ==
    [i \in 1..(Len(metricsTable) - Len(results)) |->
        MetricsRecord([f \in (DOMAIN metricsTable[i]) \ {"id"} |-> metricsTable[i][f]])]

\* C15: within one run of nonbib_to_master_pipeline, nonbib_delta_to_master_pipeline
\* or metrics_to_master_pipeline every scanned record is published exactly once:
\* during the scan the published batches followed by the buffer are the scanned
\* sequence, and at the return the published batches alone are.
C15_ExactlyOnce ==
    ScanForwarderRun =>
        /\ pc = "L110" => Flatten(queue) \o tmp = Scanned
        /\ pc \in {"close", "done"} =>
              /\ results = <<>>
              /\ Flatten(queue) = Scanned

\* a returned run that published four rows in two batches of two
C15_Witness ==
    /\ ScanForwarderRun
    /\ pc \in {"close", "done"}
    /\ batchSize = 2
    /\ Len(queue) = 2
    /\ Len(Flatten(queue)) = 4

\* C16: with batch_size <= 0, nonbib_to_master_pipeline and
\* metrics_to_master_pipeline still terminate and publish each scanned record
\* alone in its own message, as with batch_size = 1; no message is empty, also
\* when the scanned stream is empty.
C16_NonPositiveBatchSize ==
    (FullForwarderRun /\ batchSize <= 0) =>
        /\ \A m \in 1..Len(queue) : Len(queue[m].records) = 1
        /\ pc = "L110" => tmp = <<>> /\ Len(queue) = Len(metricsTable) - Len(results)
        /\ pc \in {"close", "done"} => Len(queue) = Len(metricsTable)
        /\ Terminated \/ ENABLED Next

\* a returned run with batch_size = -1 that published three rows in three messages
C16_Witness ==
    /\ FullForwarderRun
    /\ pc \in {"close", "done"}
    /\ batchSize < 0
    /\ Len(metricsTable) = 3
    /\ Len(queue) = 3

\* the delta entries of one bibcode
EntriesOf(bibcode) == {e \in delta_table : e.bibcode = bibcode}

\* C12: delta detection gives every bibcode of current or baseline exactly one of
\* New (only in current), Removed (only in baseline), Changed (in both, a tracked
\* attribute differs) and Unchanged (in both, all equal), and emits an entry for
\* a bibcode iff it is not Unchanged; reasons is non-empty iff Changed.
C12_DeltaClassification ==
    pc \in {"delta", "updated"} =>
        /\ \A e \in delta_table :
              /\ e.bibcode \in BibcodesOf(current) \cup BibcodesOf(baseline)
              /\ e.classification \in {"New", "Removed", "Changed"}
              /\ e.reasons /= {} <=> e.classification = "Changed"
        /\ \A b \in BibcodesOf(current) \cup BibcodesOf(baseline) :
              LET inS == b \in BibcodesOf(current)
                  inB == b \in BibcodesOf(baseline)
                  classes == {e.classification : e \in EntriesOf(b)}
              IN  /\ Cardinality(EntriesOf(b)) <= 1
                  /\ (inS /\ ~inB) => classes = {"New"}
                  /\ (inB /\ ~inS) => classes = {"Removed"}
                  /\ (inS /\ inB /\ RowOf(current, b) /= RowOf(baseline, b))
                        => classes = {"Changed"}
                  /\ (inS /\ inB /\ RowOf(current, b) = RowOf(baseline, b))
                        => classes = {}

\* both bibcodes are in both snapshots; one changed its refereed flag only, the
\* other is unchanged
C12_Witness ==
    /\ pc = "delta"
    /\ BibcodesOf(current) = BibcodesOf(baseline)
    /\ Cardinality(current) >= 2
    /\ Cardinality(delta_table) = 1
    /\ \E e \in delta_table : e.classification = "Changed" /\ e.reasons = {"refereed"}

\* C11: after the changed-only metrics run, the stored MetricsRecord of every
\* bibcode of the current snapshot is the one a full recompute of the current
\* snapshot would store, also for a record that is itself unchanged but has a
\* changed citer.
C11_IncrementalEqualsFull ==
    pc = "updated" =>
        {m \in metricsStore : m.bibcode \in BibcodesOf(current)}
            = FullMetrics(current, year)

====
